---- MODULE Spec2Model ----
(***************************************************************************)
(* canai: event-triggered clip recording.                                  *)
(*                                                                         *)
(* Three kinds of thread share the state below:                            *)
(*   - the stream handler   (canai/stream/video_stream_handler.py),        *)
(*   - the orchestrator     (canai/canai.py, CanAI.run/_handle_detection), *)
(*   - the recorder threads (CanAI._record_clip ->                         *)
(*                           canai/project_utils/video_recorder.py).       *)
(* Time is the wall clock read by time.time(), in whole seconds.  A frame  *)
(* is identified by its arrival number 1, 2, 3, ...; 0 stands for None.    *)
(* The number names the frame object the detector returned for that        *)
(* arrival: two references are the same object exactly if they are the     *)
(* same number.  The copies get_current_frame hands to a caller are        *)
(* numbered -1, -2, ...                                                    *)
(* Confidence values and thresholds are in tenths (0.7 is 7).              *)
(***************************************************************************)
EXTENDS Integers, Sequences, FiniteSets, TLC

\* ------------------------------------------------------------------ bounds
MaxFrames == 2          \* frames the camera delivers in a run of the application
MaxTime == 2            \* seconds the clock runs past start_time in such a run
MaxRecordings == 2      \* recordings the orchestrator triggers in a run
MaxHandlerFrames == 4   \* frames the camera delivers to the stream handler alone
MaxHandlerTime == 3     \* seconds the clock runs for the stream handler alone
MaxSkips == 1           \* reads of the stream handler alone that return None
MaxClipFrames == 2      \* frames the camera delivers during one record_clip call
MaxClipTicks == 3       \* frame intervals the clock runs during one record_clip call
MaxCalls == 2           \* get_current_frame calls of one caller

\* -------------------------------------------------------- program constants
start_time == 10        \* time.time() at construction: far more than any cooldown
BufferWindow == 2       \* the fixed window of _maintain_buffer, in seconds
high_threshold == 7     \* config.get('detection_threshold', 0.7)
low_threshold == 3      \* config.get('low_detection_threshold', 0.3)

\* The configurations of app_config.yaml the model runs with.  All of them
\* pass CanAI._validate_config (ValidConfig below).
Configs ==
    { [fps |-> 1, pre_event_seconds |-> 0, post_event_seconds |-> 0],
      [fps |-> 1, pre_event_seconds |-> 1, post_event_seconds |-> 1],
      [fps |-> 2, pre_event_seconds |-> 1, post_event_seconds |-> 0] }

\* The confidence arrays the detector returns: below the low threshold,
\* between the thresholds, above the high threshold.
Confidences == { {1}, {5}, {9} }

VARIABLES
    now,                    \* time.time()
    config,                 \* app_config
    \* VideoStreamHandler
    hpc,                    \* position of the stream handler thread
    hframe,                 \* the frame run() holds (its arrival number)
    frame_buffer,           \* queue.Queue(maxsize=max_pre_frames), oldest first
    frame_timestamps,       \* list of floats
    current_frame,          \* latest stored frame, 0 for None
    lock,                   \* "free" or the holder of VideoStreamHandler.lock
    added_at,               \* history: the stamp of each frame now in frame_buffer
    \* CanAI
    opc,                    \* position of the orchestrator (main) thread
    current_time,           \* local of _handle_detection
    confidence,             \* local of _handle_detection
    branch,                 \* the branch of the if-chain the last call took,
                            \* "raised" once the loop of run has raised
    pre_event_frames,       \* local of _handle_detection
    last_detection_time,
    recorded_detection,
    recording_in_progress,
    \* recorder threads
    rec,                    \* per recording: position and locals of record_clip
    \* main
    main,                   \* position of main and the error it raised
    \* VideoStreamHandler.run
    skipped,                \* log of "No frame received": hframe at each of them
    \* one call of CanAI._record_clip, statement by statement
    clip,                   \* its locals, its video writer, its log and its clock
    \* frame objects
    heap,                   \* pixels of the copies and of the overwritten frames
    caller,                 \* a caller of get_current_frame: calls made, last result
    stopped_at,             \* history: when the stream handler's run ended (0: not yet)
    camera_stops            \* history: calls of camera.stop() made by run

hvars == <<hpc, hframe, frame_buffer, frame_timestamps, current_frame, added_at>>
ovars == <<opc, current_time, confidence, branch, pre_event_frames,
           last_detection_time, recorded_detection>>
xvars == <<main, skipped, clip, heap, caller, stopped_at, camera_stops>>
vars == <<now, config, hvars, lock, ovars, recording_in_progress, rec, xvars>>

Recordings == 1..MaxRecordings

\* ------------------------------------------------------------ configuration
\* CanAI._validate_config: no ValueError is raised.
ValidConfig(c) ==
    /\ 1 <= c.fps /\ c.fps <= 60
    /\ c.pre_event_seconds >= 0
    /\ c.post_event_seconds >= 0

\* _validate_config: required_keys.
RequiredKeys == {"fps", "pre_event_seconds", "post_event_seconds"}

\* The values a key of app_config.yaml is given: around the limits 0, 1, 60.
RawValues == {-1, 0, 1, 60, 61}

\* The dictionaries yaml.safe_load returns: any of the required keys may be
\* missing.
RawConfigs == UNION { [K -> RawValues] : K \in SUBSET RequiredKeys }

\* "1 <= self.config['fps'] <= 60"
FpsInRange_NoUpperLimit(c) == 1 <= c.fps
FpsInRange(c) == 1 <= c.fps /\ c.fps <= 60

\* CanAI._validate_config: the message of the ValueError raised, "ok" if none.
ValidateConfig(c) ==
    IF \E key \in RequiredKeys : key \notin DOMAIN c
    THEN "Missing required configuration key"
    ELSE IF ~FpsInRange(c)
    THEN "FPS must be between 1 and 60"
    ELSE IF c.pre_event_seconds < 0
    THEN "Pre-event seconds cannot be negative"
    ELSE IF c.post_event_seconds < 0
    THEN "Post-event seconds cannot be negative"
    ELSE "ok"

\* main: max_pre_frames = int(pre_event_seconds * fps)
max_pre_frames == config.pre_event_seconds * config.fps

\* ------------------------------------------------------------- queue.Queue
\* Queue.full(): "return 0 < self.maxsize <= self._qsize()"; a maxsize of 0
\* makes the queue unbounded.
QueueFull(q) == 0 < max_pre_frames /\ max_pre_frames <= Len(q)

\* Queue.get() removes and returns the oldest item.
QueueGetNewest(q) == SubSeq(q, 1, Len(q) - 1)
QueueGet(q) == Tail(q)

\* The process is alive until main returns.
Alive == opc # "exited"

\* ------------------------------------------------------------------- Init
NoRecording == [pc |-> "none", pre |-> <<>>, trig |-> 0, t0 |-> 0, wake |-> 0]

\* main after "app.run()" has started the capture thread.
Started == [pc |-> "running", error |-> "ok"]

\* No record_clip call is followed statement by statement.
NoClip ==
    [pc |-> "none", pre |-> <<>>, i |-> 0, written |-> <<>>, fetches |-> <<>>,
     iters |-> 0, opened |-> FALSE, releases |-> 0, raised |-> FALSE,
     logged |-> FALSE, clock |-> 0, t0 |-> 0, tcheck |-> 0, wake |-> 0]

\* No get_current_frame call has been made.
NoCaller == [calls |-> 0, ret |-> 0]

Init ==
    /\ now = start_time
    /\ config \in { c \in Configs : ValidConfig(c) }
    /\ hpc = "read"
    /\ hframe = 0
    /\ frame_buffer = <<>>
    /\ frame_timestamps = <<>>
    /\ current_frame = 0
    /\ lock = "free"
    /\ added_at = <<>>
    /\ opc = "loop"
    /\ current_time = 0
    /\ confidence = {}
    /\ branch = "none"
    /\ pre_event_frames = <<>>
    /\ last_detection_time = 0
    /\ recorded_detection = FALSE
    /\ recording_in_progress = FALSE
    /\ rec = [r \in Recordings |-> NoRecording]
    /\ main = Started
    /\ skipped = <<>>
    /\ clip = NoClip
    /\ heap = <<>>
    /\ caller = NoCaller
    /\ stopped_at = 0
    /\ camera_stops = 0

\* ------------------------------------------------------------------- main
\* main has loaded app_config.yaml and built the camera, the detector, the
\* recorder and the stream handler; no thread is started.
MainInit ==
    /\ now = start_time
    /\ config \in RawConfigs
    /\ hpc = "unstarted"
    /\ hframe = 0
    /\ frame_buffer = <<>>
    /\ frame_timestamps = <<>>
    /\ current_frame = 0
    /\ lock = "free"
    /\ added_at = <<>>
    /\ opc = "unstarted"
    /\ current_time = 0
    /\ confidence = {}
    /\ branch = "none"
    /\ pre_event_frames = <<>>
    /\ last_detection_time = 0
    /\ recorded_detection = FALSE
    /\ recording_in_progress = FALSE
    /\ rec = [r \in Recordings |-> NoRecording]
    /\ main = [pc |-> "new", error |-> "ok"]
    /\ skipped = <<>>
    /\ clip = NoClip
    /\ heap = <<>>
    /\ caller = NoCaller
    /\ stopped_at = 0
    /\ camera_stops = 0

\* main: "app = CanAI(...)".  __init__ ends with _validate_config(); a
\* ValueError is logged by main and raised again.
MainConstruct ==
    /\ main.pc = "new"
    /\ main' = [pc |-> IF ValidateConfig(config) = "ok"
                       THEN "constructed" ELSE "raised",
                error |-> ValidateConfig(config)]
    /\ UNCHANGED <<now, config, hvars, lock, ovars, recording_in_progress,
                   rec, skipped, clip, heap, caller, stopped_at, camera_stops>>

\* main: "app.run()"; run starts the capture thread and enters its loop.
MainRun ==
    /\ main.pc = "constructed"
    /\ main' = [main EXCEPT !.pc = "running"]
    /\ hpc' = "read"
    /\ opc' = "loop"
    /\ UNCHANGED <<now, config, hframe, frame_buffer, frame_timestamps,
                   current_frame, added_at, lock, current_time, confidence,
                   branch, pre_event_frames, last_detection_time,
                   recorded_detection, recording_in_progress, rec, skipped,
                   clip, heap, caller, stopped_at, camera_stops>>

MainNext == MainConstruct \/ MainRun

MainSpec == MainInit /\ [][MainNext]_vars

\* ------------------------------------------------------- VideoStreamHandler
\* _maintain_buffer: the loop condition.
Expired == Len(frame_timestamps) > 0 /\ now - frame_timestamps[1] > BufferWindow

\* run: camera.get_frame() returns a frame, detector.detect annotates it;
\* add_frame enters "with self.lock".
HRead(limit) ==
    /\ hpc = "read"
    /\ hframe < limit
    /\ lock = "free"
    /\ hframe' = hframe + 1
    /\ lock' = "handler"
    /\ hpc' = "maintain"
    /\ UNCHANGED <<now, config, xvars, frame_buffer, frame_timestamps, current_frame,
                   added_at, ovars, recording_in_progress, rec>>

\* _maintain_buffer: one evaluation of the loop condition and, when it holds,
\* one iteration.  frame_buffer.get() blocks while the queue is empty.
HMaintain ==
    /\ hpc = "maintain"
    /\ IF Expired
       THEN /\ Len(frame_buffer) > 0
            /\ frame_buffer' = QueueGet(frame_buffer)
            /\ added_at' = Tail(added_at)
            /\ frame_timestamps' = Tail(frame_timestamps)
            /\ hpc' = "maintain"
       ELSE /\ hpc' = "evict"
            /\ UNCHANGED <<frame_buffer, added_at, frame_timestamps>>
    /\ UNCHANGED <<now, config, xvars, hframe, current_frame, lock, ovars,
                   recording_in_progress, rec>>

\* add_frame: "if self.frame_buffer.full(): self.frame_buffer.get()".
HEvict ==
    /\ hpc = "evict"
    /\ IF QueueFull(frame_buffer)
       THEN /\ frame_buffer' = QueueGet(frame_buffer)
            /\ added_at' = Tail(added_at)
       ELSE UNCHANGED <<frame_buffer, added_at>>
    /\ hpc' = "put"
    /\ UNCHANGED <<now, config, xvars, hframe, frame_timestamps, current_frame, lock,
                   ovars, recording_in_progress, rec>>

\* add_frame: put(frame) on the queue, which is not full here; append
\* time.time(); store current_frame; leave the with block.
HPut ==
    /\ hpc = "put"
    /\ ~QueueFull(frame_buffer)
    /\ frame_buffer' = Append(frame_buffer, hframe)
    /\ frame_timestamps' = Append(frame_timestamps, now)
    /\ added_at' = Append(added_at, now)
    /\ current_frame' = hframe
    /\ lock' = "free"
    /\ hpc' = "read"
    /\ UNCHANGED <<now, config, xvars, hframe, ovars, recording_in_progress, rec>>

\* run: camera.get_frame() returns None: "No frame received" is logged and
\* "continue" starts the next iteration.
HNone_Fatal ==
    /\ hpc = "read"
    /\ Len(skipped) < MaxSkips
    /\ skipped' = Append(skipped, hframe)
    /\ hpc' = "stopped"
    /\ UNCHANGED <<now, config, hframe, frame_buffer, frame_timestamps,
                   current_frame, added_at, lock, ovars, recording_in_progress,
                   rec, main, clip, heap, caller, stopped_at, camera_stops>>
HNone ==
    /\ hpc = "read"
    /\ Len(skipped) < MaxSkips
    /\ skipped' = Append(skipped, hframe)
    /\ UNCHANGED <<now, config, hvars, lock, ovars, recording_in_progress,
                   rec, main, clip, heap, caller, stopped_at, camera_stops>>

\* run: camera.get_frame() raises; "except RuntimeError" logs the error and
\* the loop, and with it the thread, ends.
HCameraError ==
    /\ hpc = "read"
    /\ hpc' = "stopped"
    /\ stopped_at' = now
    /\ UNCHANGED <<now, config, main, skipped, clip, heap, caller, camera_stops, hframe,
                   frame_buffer, frame_timestamps, current_frame, added_at,
                   lock, ovars, recording_in_progress, rec>>

\* get_current_frame: the value returned, taken while holding the lock.
GetCurrentFrame == current_frame

\* ------------------------------------------------------------ frame objects
\* The pixels of frame object o under heap h: the frame of arrival n shows
\* n until it is overwritten; heap holds the copies and the overwritten.
PixelsIn(h, o) == IF o \in DOMAIN h THEN h[o] ELSE o

Pixels(o) == PixelsIn(heap, o)

\* "self.current_frame.copy()": a new object.
FrameCopy_Alias(o) == o
FrameCopy(o) == 0 - (caller.calls + 1)

\* A caller runs get_current_frame: "with self.lock", None if current_frame
\* is None, else a copy of it.
CallerGet ==
    /\ caller.calls < MaxCalls
    /\ lock = "free"
    /\ IF GetCurrentFrame = 0
       THEN /\ caller' = [calls |-> caller.calls + 1, ret |-> 0]
            /\ UNCHANGED heap
       ELSE /\ caller' = [calls |-> caller.calls + 1,
                          ret |-> FrameCopy(GetCurrentFrame)]
            /\ heap' = (FrameCopy(GetCurrentFrame) :> Pixels(GetCurrentFrame))
                         @@ heap
    /\ UNCHANGED <<now, config, hvars, lock, ovars, recording_in_progress,
                   rec, main, skipped, clip, stopped_at, camera_stops>>

\* The caller overwrites the pixels of the frame it was given (0: blank).
CallerDraw ==
    /\ caller.ret # 0
    /\ Pixels(caller.ret) # 0
    /\ heap' = (caller.ret :> 0) @@ heap
    /\ UNCHANGED <<now, config, hvars, lock, ovars, recording_in_progress,
                   rec, main, skipped, clip, caller, stopped_at, camera_stops>>

\* ------------------------------- the queue-only VideoStreamHandler (src/stream)
\* run of src/stream/video_stream_handler.py: frame_buffer is
\* queue.Queue(maxsize=max_pre_frames) and there are no timestamps.  Both
\* current_frame and the buffer get a copy of the annotated frame of arrival
\* n: the objects 1 - 2n and 0 - 2n.
QCurrentCopy(n) == 1 - 2 * n
QBufferCopy(n) == 0 - 2 * n

\* The state the queue-only handler leaves untouched.
QUnchanged ==
    UNCHANGED <<now, config, frame_timestamps, added_at, ovars,
                recording_in_progress, rec, main, clip, caller, stopped_at, camera_stops>>

\* "while self.camera.running": camera.get_frame() returns a frame and
\* detector.detect annotates it.
QRead ==
    /\ hpc = "read"
    /\ hframe < MaxHandlerFrames
    /\ hframe' = hframe + 1
    /\ hpc' = "setcurrent"
    /\ UNCHANGED <<frame_buffer, current_frame, lock, heap, skipped>>
    /\ QUnchanged

\* camera.get_frame() returns None: warning, continue.
QNone ==
    /\ hpc = "read"
    /\ Len(skipped) < MaxSkips
    /\ skipped' = Append(skipped, hframe)
    /\ UNCHANGED <<hpc, hframe, frame_buffer, current_frame, lock, heap>>
    /\ QUnchanged

\* camera.running is False, or get_frame raises RuntimeError (break): the
\* loop ends.
QStop ==
    /\ hpc = "read"
    /\ hpc' = "stopped"
    /\ UNCHANGED <<hframe, frame_buffer, current_frame, lock, heap, skipped>>
    /\ QUnchanged

\* "with self.lock: self.current_frame = frame_with_boxes.copy()"
QSetCurrent ==
    /\ hpc = "setcurrent"
    /\ lock = "free"
    /\ current_frame' = QCurrentCopy(hframe)
    /\ heap' = (QCurrentCopy(hframe) :> hframe) @@ heap
    /\ hpc' = "put"
    /\ UNCHANGED <<hframe, frame_buffer, lock, skipped>>
    /\ QUnchanged

\* "self.frame_buffer.put_nowait(frame_with_boxes.copy())": queue.Full is
\* raised if the queue is full.
QPut ==
    /\ hpc = "put"
    /\ IF QueueFull(frame_buffer)
       THEN /\ hpc' = "get"
            /\ UNCHANGED <<frame_buffer, heap>>
       ELSE /\ frame_buffer' = Append(frame_buffer, QBufferCopy(hframe))
            /\ heap' = (QBufferCopy(hframe) :> hframe) @@ heap
            /\ hpc' = "read"
    /\ UNCHANGED <<hframe, current_frame, lock, skipped>>
    /\ QUnchanged

\* "except queue.Full: self.frame_buffer.get_nowait()"
QGet ==
    /\ hpc = "get"
    /\ frame_buffer # <<>>
    /\ frame_buffer' = QueueGet(frame_buffer)
    /\ hpc' = "putagain"
    /\ UNCHANGED <<hframe, current_frame, lock, heap, skipped>>
    /\ QUnchanged

\* "self.frame_buffer.put_nowait(frame_with_boxes.copy())" of the handler.
QPutAgain ==
    /\ hpc = "putagain"
    /\ ~QueueFull(frame_buffer)
    /\ frame_buffer' = Append(frame_buffer, QBufferCopy(hframe))
    /\ heap' = (QBufferCopy(hframe) :> hframe) @@ heap
    /\ hpc' = "read"
    /\ UNCHANGED <<hframe, current_frame, lock, skipped>>
    /\ QUnchanged

QueueHandlerNext ==
    QRead \/ QNone \/ QStop \/ QSetCurrent \/ QPut \/ QGet \/ QPutAgain

QueueHandlerSpec == Init /\ [][QueueHandlerNext]_vars

\* ----------------------------------------------------------------- CanAI
NumStarted == Cardinality({ r \in Recordings : rec[r].pc # "none" })

\* (confidence >= high_threshold).any()
HighAny(c) == \E x \in c : x >= high_threshold
\* (confidence >= low_threshold).any()
LowAny(c) == \E x \in c : x >= low_threshold
\* (confidence < low_threshold).all()
AllBelowLow(c) == \A x \in c : x < low_threshold

\* _handle_detection: "not self.recording_in_progress"
NotRecording_Ignored == TRUE
NotRecording == ~recording_in_progress

\* _handle_detection: the cooldown test.
CooldownElapsed_Ignored == TRUE
CooldownElapsed == current_time - last_detection_time > config.pre_event_seconds

\* run: get_current_frame() under the lock returns a frame (None: continue);
\* _handle_detection: read the clock, run the detector.
ODetect ==
    /\ opc = "loop"
    /\ NumStarted < MaxRecordings
    /\ lock = "free"
    /\ GetCurrentFrame # 0
    /\ current_time' = now
    /\ confidence' \in Confidences
    /\ opc' = "check"
    /\ UNCHANGED <<now, config, xvars, hvars, lock, branch, pre_event_frames,
                   last_detection_time, recorded_detection,
                   recording_in_progress, rec>>

\* run: where control goes after "except Exception" has logged the error.
AfterExcept_NoFinally == "exited"
AfterExcept == "finally"

\* run: cv2.resize or the detector raises; "except Exception" ends the loop.
ORaise ==
    /\ opc = "loop"
    /\ lock = "free"
    /\ GetCurrentFrame # 0
    /\ opc' = AfterExcept
    /\ branch' = "raised"
    /\ UNCHANGED <<now, config, xvars, hvars, lock, current_time, confidence,
                   pre_event_frames, last_detection_time, recorded_detection,
                   recording_in_progress, rec>>

\* _handle_detection: the if-chain, up to the first statement of the
\* triggering branch.  The two elif branches are nested in the outer if.
OCheck ==
    /\ opc = "check"
    /\ IF HighAny(confidence) /\ NotRecording
       THEN IF CooldownElapsed
            THEN /\ branch' = "trigger"
                 /\ opc' = "snapshot"
                 /\ UNCHANGED <<last_detection_time, recorded_detection>>
            ELSE IF LowAny(confidence)
            THEN /\ last_detection_time' = current_time
                 /\ branch' = "refresh"
                 /\ opc' = "after"
                 /\ UNCHANGED recorded_detection
            ELSE IF AllBelowLow(confidence)
            THEN /\ recorded_detection' = FALSE
                 /\ branch' = "reset"
                 /\ opc' = "after"
                 /\ UNCHANGED last_detection_time
            ELSE /\ branch' = "none"
                 /\ opc' = "after"
                 /\ UNCHANGED <<last_detection_time, recorded_detection>>
       ELSE /\ branch' = "none"
            /\ opc' = "after"
            /\ UNCHANGED <<last_detection_time, recorded_detection>>
    /\ UNCHANGED <<now, config, xvars, hvars, lock, current_time, confidence,
                   pre_event_frames, recording_in_progress, rec>>

\* "pre_event_frames = list(self.stream_handler.frame_buffer.queue)": a new
\* list of the frames in the deque, oldest first; the lock is not taken.
ListOf_WithoutOldest(q) == SubSeq(q, 2, Len(q))
ListOf(q) == q

OSnapshot ==
    /\ opc = "snapshot"
    /\ pre_event_frames' = ListOf(frame_buffer)
    /\ opc' = "setflag"
    /\ UNCHANGED <<now, config, xvars, hvars, lock, current_time, confidence, branch,
                   last_detection_time, recorded_detection,
                   recording_in_progress, rec>>

\* "self.recording_in_progress = True"
OSetFlag ==
    /\ opc = "setflag"
    /\ recording_in_progress' = TRUE
    /\ opc' = "start"
    /\ UNCHANGED <<now, config, xvars, hvars, lock, current_time, confidence, branch,
                   pre_event_frames, last_detection_time, recorded_detection, rec>>

\* "threading.Thread(target=self._record_clip, args=(pre_event_frames,),
\* daemon=True).start()".  trig is history: the current_time of the call.
OStart ==
    /\ opc = "start"
    /\ rec' = [rec EXCEPT ![NumStarted + 1] =
                  [pc |-> "open", pre |-> pre_event_frames,
                   trig |-> current_time, t0 |-> 0, wake |-> 0]]
    /\ opc' = "setlast"
    /\ UNCHANGED <<now, config, xvars, hvars, lock, current_time, confidence, branch,
                   pre_event_frames, last_detection_time, recorded_detection,
                   recording_in_progress>>

\* "self.last_detection_time = current_time"; _handle_detection returns.
OSetLast_Forgotten ==
    /\ opc = "setlast"
    /\ pre_event_frames' = <<>>
    /\ opc' = "after"
    /\ UNCHANGED <<now, config, xvars, hvars, lock, current_time, confidence, branch,
                   last_detection_time, recorded_detection,
                   recording_in_progress, rec>>
OSetLast ==
    /\ opc = "setlast"
    /\ last_detection_time' = current_time
    /\ pre_event_frames' = <<>>
    /\ opc' = "after"
    /\ UNCHANGED <<now, config, xvars, hvars, lock, current_time, confidence, branch,
                   recorded_detection, recording_in_progress, rec>>

\* run: imshow, waitKey returns no 'q'; next iteration.  (frame_counter only
\* feeds the log and is left out.)
OAfter ==
    /\ opc = "after"
    /\ opc' = "loop"
    /\ current_time' = 0
    /\ confidence' = {}
    /\ branch' = "none"
    /\ UNCHANGED <<now, config, xvars, hvars, lock, pre_event_frames,
                   last_detection_time, recorded_detection,
                   recording_in_progress, rec>>

\* run: waitKey returns 'q'; break.
OQuit ==
    /\ opc = "after"
    /\ opc' = "finally"
    /\ UNCHANGED <<now, config, xvars, hvars, lock, current_time, confidence, branch,
                   pre_event_frames, last_detection_time, recorded_detection,
                   recording_in_progress, rec>>

\* A recorder thread between Thread.start() and the end of _record_clip.
InFlight(r) == rec[r].pc \in {"open", "check", "fetch", "sleep", "reset"}

\* run's finally block, then run and main return and the interpreter exits:
\* the daemon threads (stream handler, recorders) are stopped where they are.
OExit ==
    /\ opc = "finally"
    /\ opc' = "exited"
    /\ camera_stops' = camera_stops + 1
    /\ rec' = [r \in Recordings |->
                  IF InFlight(r) THEN [rec[r] EXCEPT !.pc = "killed"] ELSE rec[r]]
    /\ hpc' = "killed"
    /\ UNCHANGED <<now, config, main, skipped, clip, heap, caller, stopped_at,
                   hframe, frame_buffer, frame_timestamps,
                   current_frame, added_at, lock, current_time, confidence,
                   branch, pre_event_frames, last_detection_time,
                   recorded_detection, recording_in_progress>>

OrchestratorNext ==
    \/ ODetect \/ OCheck \/ OSnapshot \/ OSetFlag \/ OStart \/ OSetLast \/ OAfter

\* --------------------------------------------------------- EventClipRecorder
\* time.sleep(1/self.fps), in whole seconds.
SleepSeconds == 1 \div config.fps

\* record_clip: makedirs, file name, "if not pre_event_frames: return"; open
\* the video writer, write the pre-event frames, "start_time = time.time()".
ROpen(r) ==
    /\ rec[r].pc = "open"
    /\ rec' = IF rec[r].pre = <<>>
              THEN [rec EXCEPT ![r].pc = "reset"]
              ELSE [rec EXCEPT ![r].pc = "check", ![r].t0 = now]
    /\ UNCHANGED <<now, config, xvars, hvars, lock, ovars, recording_in_progress>>

\* record_clip: "while time.time() - start_time < self.post_event_seconds";
\* after the loop the finally block releases the writer and record_clip
\* returns.
RCheck(r) ==
    /\ rec[r].pc = "check"
    /\ rec' = [rec EXCEPT ![r].pc =
                  IF now - rec[r].t0 < config.post_event_seconds
                  THEN "fetch" ELSE "reset"]
    /\ UNCHANGED <<now, config, xvars, hvars, lock, ovars, recording_in_progress>>

\* record_clip: get_current_frame() takes the lock and has left "with
\* self.lock" when it returns; write the frame if any; time.sleep begins.
LockAfterGet_Kept == "recorder"
LockAfterGet == "free"

RFetch(r) ==
    /\ rec[r].pc = "fetch"
    /\ lock = "free"
    /\ lock' = LockAfterGet
    /\ rec' = [rec EXCEPT ![r].pc = "sleep", ![r].wake = now + SleepSeconds]
    /\ UNCHANGED <<now, config, xvars, hvars, ovars, recording_in_progress>>

\* record_clip: time.sleep(1/self.fps) returns.
RSleep(r) ==
    /\ rec[r].pc = "sleep"
    /\ now >= rec[r].wake
    /\ rec' = [rec EXCEPT ![r].pc = "check", ![r].wake = 0]
    /\ UNCHANGED <<now, config, xvars, hvars, lock, ovars, recording_in_progress>>

\* _record_clip: "self.recording_in_progress = False"; the thread ends.
RReset(r) ==
    /\ rec[r].pc = "reset"
    /\ recording_in_progress' = FALSE
    /\ rec' = [rec EXCEPT ![r].pc = "done"]
    /\ UNCHANGED <<now, config, xvars, hvars, lock, ovars>>

RecorderNext(r) ==
    ROpen(r) \/ RCheck(r) \/ RFetch(r) \/ RSleep(r) \/ RReset(r)

\* ------------------------------------------------------ ObjectDetectionApp
\* run of src/canai/stream/object_detection_app.py, after the capture thread
\* has been started.  The recorder thread's target is recorder.record_clip
\* itself, and the only flag is recorded_detection.
AppUnchanged ==
    UNCHANGED <<now, config, xvars, hvars, current_time, confidence,
                last_detection_time, recording_in_progress>>

\* "frame = self.stream_handler.get_current_frame()"; None: continue.
\* "detected, _ = self.detector.detect(frame)" and the choice of the branch:
\* "if detected and not self.recorded_detection" / "elif not detected:
\* self.recorded_detection = False".
AppDetect ==
    /\ opc = "loop"
    /\ lock = "free"
    /\ NumStarted < MaxRecordings
    /\ IF current_frame = 0
       THEN UNCHANGED <<opc, branch, recorded_detection>>
       ELSE \E detected \in BOOLEAN :
                IF detected /\ ~recorded_detection
                THEN /\ opc' = "snapshot"
                     /\ branch' = "trigger"
                     /\ UNCHANGED recorded_detection
                ELSE /\ opc' = "after"
                     /\ branch' = IF detected THEN "none" ELSE "reset"
                     /\ recorded_detection' = (detected /\ recorded_detection)
    /\ UNCHANGED <<lock, pre_event_frames, rec>>
    /\ AppUnchanged

\* "pre_event_frames = list(self.stream_handler.frame_buffer.queue)"
AppSnapshot ==
    /\ opc = "snapshot"
    /\ pre_event_frames' = ListOf(frame_buffer)
    /\ opc' = "start"
    /\ UNCHANGED <<lock, branch, recorded_detection, rec>>
    /\ AppUnchanged

\* "threading.Thread(target=self.recorder.record_clip, args=(pre_event_frames,
\* self.stream_handler.get_current_frame), daemon=True).start()".  trig is
\* history: the time of the start.
AppStart ==
    /\ opc = "start"
    /\ rec' = [rec EXCEPT ![NumStarted + 1] =
                  [pc |-> "open", pre |-> pre_event_frames,
                   trig |-> now, t0 |-> 0, wake |-> 0]]
    /\ opc' = "setflag"
    /\ UNCHANGED <<lock, branch, pre_event_frames, recorded_detection>>
    /\ AppUnchanged

\* "self.recorded_detection = True"
AppSetFlag ==
    /\ opc = "setflag"
    /\ recorded_detection' = TRUE
    /\ opc' = "after"
    /\ UNCHANGED <<lock, branch, pre_event_frames, rec>>
    /\ AppUnchanged

\* cv2.imshow; cv2.waitKey(1) returns no 'q': the next iteration.
AppAfter ==
    /\ opc = "after"
    /\ opc' = "loop"
    /\ UNCHANGED <<lock, branch, pre_event_frames, recorded_detection, rec>>
    /\ AppUnchanged

\* cv2.waitKey(1) returns 'q': break; the finally block stops the camera,
\* run returns and the interpreter exits with its daemon threads.
AppQuit ==
    /\ opc = "after"
    /\ opc' = "exited"
    /\ camera_stops' = camera_stops + 1
    /\ UNCHANGED <<lock, branch, pre_event_frames, recorded_detection, rec>>
    /\ UNCHANGED <<now, config, main, skipped, clip, heap, caller, stopped_at,
                   hvars, current_time, confidence, last_detection_time,
                   recording_in_progress>>

\* record_clip has left its finally block and returns: the recorder thread
\* ends.  Nothing of the application is told.
AppRecorderReturn(r) ==
    /\ Alive
    /\ rec[r].pc = "reset"
    /\ rec' = [rec EXCEPT ![r].pc = "done"]
    /\ UNCHANGED <<opc, lock, branch, pre_event_frames, recorded_detection>>
    /\ AppUnchanged

AppRecorderNext(r) ==
    ROpen(r) \/ RCheck(r) \/ RFetch(r) \/ RSleep(r) \/ AppRecorderReturn(r)

AppNext ==
    AppDetect \/ AppSnapshot \/ AppStart \/ AppSetFlag \/ AppAfter \/ AppQuit

\* --------------------------- record_clip, statement by statement
\* One call of CanAI._record_clip, with the video writer, the frames written
\* to it and the results of get_current_frame.  clip.clock is time.time() as
\* this thread reads it, counted in frame intervals of 1/fps second, so that
\* time.sleep(1/self.fps) is one interval for every fps.

\* The pre_event_frames the call is made with: frames of an earlier stretch
\* of video, numbered apart from the live ones.
PreEventLists == { <<>>, <<8>>, <<8, 9>> }

\* The configurations the call is made under: post-event durations of zero,
\* one and two frame intervals.
RecorderConfigs ==
    Configs \cup { [fps |-> 2, pre_event_seconds |-> 1, post_event_seconds |-> 1] }

\* "time.time() - start_time < self.post_event_seconds", in frame intervals.
PostIntervals == config.fps * config.post_event_seconds

\* "if not pre_event_frames"
NoFrames_Unchecked(p) == FALSE
NoFrames(p) == p = <<>>

\* "if frame is not None: video_writer.write(frame)"
WriteIfPresent_Always(w, f) == Append(w, f)
WriteIfPresent(w, f) == IF f # 0 THEN Append(w, f) ELSE w

\* time.sleep(1/self.fps) returns no earlier than one frame interval on.
ClipWake_NoSleep == clip.clock
ClipWake == clip.clock + 1

\* "if 'video_writer' in locals(): video_writer.release()"
ReleaseCount_Never(c) == c.releases
ReleaseCount(c) == IF c.opened THEN c.releases + 1 ELSE c.releases

\* The state in which the orchestrator has just started the recorder thread.
RecorderInit ==
    /\ now = start_time
    /\ config \in { c \in RecorderConfigs : ValidConfig(c) }
    /\ hpc = "read"
    /\ hframe = 0
    /\ frame_buffer = <<>>
    /\ frame_timestamps = <<>>
    /\ current_frame = 0
    /\ lock = "free"
    /\ added_at = <<>>
    /\ opc = "loop"
    /\ current_time = 0
    /\ confidence = {}
    /\ branch = "none"
    /\ pre_event_frames = <<>>
    /\ last_detection_time = 0
    /\ recorded_detection = FALSE
    /\ recording_in_progress = TRUE
    /\ rec = [r \in Recordings |-> NoRecording]
    /\ main = Started
    /\ skipped = <<>>
    /\ clip \in { [NoClip EXCEPT !.pc = "start", !.pre = p] : p \in PreEventLists }
    /\ heap = <<>>
    /\ caller = NoCaller
    /\ stopped_at = 0
    /\ camera_stops = 0

ClipUnchanged ==
    UNCHANGED <<now, config, hvars, lock, ovars, rec, main, skipped, heap, caller, stopped_at, camera_stops>>

\* record_clip: makedirs, the file name, "if not pre_event_frames: warning;
\* return" (the finally block still runs); otherwise the dimensions and
\* cv2.VideoWriter(...).
ClipStart ==
    /\ clip.pc = "start"
    /\ clip' = IF NoFrames(clip.pre)
               THEN [clip EXCEPT !.pc = "finally"]
               ELSE [clip EXCEPT !.pc = "pre", !.opened = TRUE, !.i = 1]
    /\ UNCHANGED recording_in_progress
    /\ ClipUnchanged

\* "for frame in pre_event_frames: video_writer.write(frame)", one iteration;
\* after the last one "start_time = time.time()".
ClipWritePre ==
    /\ clip.pc = "pre"
    /\ clip' = IF clip.i <= Len(clip.pre)
               THEN [clip EXCEPT !.written = Append(@, clip.pre[clip.i]),
                                 !.i = @ + 1]
               ELSE [clip EXCEPT !.t0 = clip.clock, !.pc = "check"]
    /\ UNCHANGED recording_in_progress
    /\ ClipUnchanged

\* "while time.time() - start_time < self.post_event_seconds"; after the
\* loop, logger.info and on to the finally block.
ClipCheck ==
    /\ clip.pc = "check"
    /\ clip' = IF clip.clock - clip.t0 < PostIntervals
               THEN [clip EXCEPT !.tcheck = clip.clock, !.iters = @ + 1,
                                 !.pc = "fetch"]
               ELSE [clip EXCEPT !.tcheck = clip.clock, !.pc = "finally"]
    /\ UNCHANGED recording_in_progress
    /\ ClipUnchanged

\* "frame = get_current_frame()" under the lock; "if frame is not None:
\* video_writer.write(frame)"; time.sleep begins.
ClipFetch ==
    /\ clip.pc = "fetch"
    /\ lock = "free"
    /\ clip' = [clip EXCEPT !.fetches = Append(@, GetCurrentFrame),
                            !.written = WriteIfPresent(@, GetCurrentFrame),
                            !.wake = ClipWake,
                            !.pc = "sleep"]
    /\ UNCHANGED recording_in_progress
    /\ ClipUnchanged

\* time.sleep(1/self.fps) returns.
ClipSleep ==
    /\ clip.pc = "sleep"
    /\ clip.clock >= clip.wake
    /\ clip' = [clip EXCEPT !.pc = "check"]
    /\ UNCHANGED recording_in_progress
    /\ ClipUnchanged

\* A statement of the try block raises: makedirs or cv2.VideoWriter (no
\* video_writer is bound), video_writer.write of a pre-event frame, or
\* get_current_frame.  "except Exception" logs the error.
ClipRaise ==
    /\ \/ clip.pc = "start"
       \/ clip.pc = "pre" /\ clip.i <= Len(clip.pre)
       \/ clip.pc = "fetch"
    /\ clip' = [clip EXCEPT !.raised = TRUE, !.logged = TRUE, !.pc = "finally"]
    /\ UNCHANGED recording_in_progress
    /\ ClipUnchanged

\* get_current_frame returns a frame and video_writer.write(frame) raises.
ClipWriteRaise ==
    /\ clip.pc = "fetch"
    /\ lock = "free"
    /\ GetCurrentFrame # 0
    /\ clip' = [clip EXCEPT !.fetches = Append(@, GetCurrentFrame),
                            !.raised = TRUE, !.logged = TRUE, !.pc = "finally"]
    /\ UNCHANGED recording_in_progress
    /\ ClipUnchanged

\* The finally block; record_clip returns.
ClipFinally ==
    /\ clip.pc = "finally"
    /\ clip' = [clip EXCEPT !.releases = ReleaseCount(clip), !.pc = "returned"]
    /\ UNCHANGED recording_in_progress
    /\ ClipUnchanged

\* The finally block: video_writer.release() raises.  Nothing catches the
\* exception: it leaves record_clip and _record_clip, whose last statement
\* is not run, and the thread ends with it.
ClipReleaseRaise ==
    /\ clip.pc = "finally"
    /\ clip.opened
    /\ clip' = [clip EXCEPT !.releases = ReleaseCount(clip), !.raised = TRUE,
                            !.pc = "died"]
    /\ UNCHANGED recording_in_progress
    /\ ClipUnchanged

\* _record_clip: "self.recording_in_progress = False"; the thread ends.
ClipReturn ==
    /\ clip.pc = "returned"
    /\ recording_in_progress' = FALSE
    /\ clip' = [clip EXCEPT !.pc = "done"]
    /\ ClipUnchanged

\* The clock of the recorder thread advances by one frame interval.
ClipTick ==
    /\ clip.pc \notin {"none", "done", "died"}
    /\ clip.clock < MaxClipTicks
    /\ clip' = [clip EXCEPT !.clock = @ + 1]
    /\ UNCHANGED recording_in_progress
    /\ ClipUnchanged

ClipNext ==
    \/ ClipStart \/ ClipWritePre \/ ClipCheck \/ ClipFetch \/ ClipSleep
    \/ ClipRaise \/ ClipWriteRaise \/ ClipFinally \/ ClipReleaseRaise
    \/ ClipReturn

\* ------------------------------------------------------------------ clock
\* A recorder in its post-event loop that the clock has to advance for.
NeedsTime(r) ==
    \/ /\ rec[r].pc \in {"check", "fetch", "sleep"}
       /\ now - rec[r].t0 < config.post_event_seconds
    \/ /\ rec[r].pc = "sleep"
       /\ now < rec[r].wake

\* The clock advances: for limit seconds, and beyond as long as a recording
\* in flight waits for it.
Tick(limit) ==
    /\ Alive
    /\ \/ now < start_time + limit
       \/ \E r \in Recordings : NeedsTime(r)
    /\ now' = now + 1
    /\ UNCHANGED <<config, xvars, hvars, lock, ovars, recording_in_progress, rec>>

\* ---------------------------------------------------------- specifications
HandlerNext(limit) == HRead(limit) \/ HMaintain \/ HEvict \/ HPut

\* The application: stream handler, orchestrator and recorder threads.
Next ==
    \/ Tick(MaxTime)
    \/ HandlerNext(MaxFrames)
    \/ OrchestratorNext
    \/ ORaise
    \/ OQuit
    \/ OExit
    \/ \E r \in Recordings : RecorderNext(r)

Spec == Init /\ [][Next]_vars

\* The threads are scheduled fairly and the clock advances.  The user's quit
\* and the exceptions are not forced.
LiveSpec ==
    /\ Init /\ [][Next]_vars
    /\ WF_vars(Tick(MaxTime))
    /\ WF_vars(HandlerNext(MaxFrames))
    /\ WF_vars(OrchestratorNext)
    /\ WF_vars(OExit)
    /\ \A r \in Recordings : WF_vars(RecorderNext(r))

\* The application with a camera that can fail.
FaultNext == Next \/ HNone \/ HCameraError

FaultSpec == Init /\ [][FaultNext]_vars

\* The stream handler alone: VideoStreamHandler.run, with a camera that can
\* fail, and the clock.
HandlerStep ==
    \/ Tick(MaxHandlerTime)
    \/ HandlerNext(MaxHandlerFrames)
    \/ HNone
    \/ HCameraError

HandlerSpec == Init /\ [][HandlerStep]_vars

\* ObjectDetectionApp with its stream handler and its recorder threads.
AppStep ==
    \/ Tick(MaxTime)
    \/ HandlerNext(MaxFrames)
    \/ AppNext
    \/ \E r \in Recordings : AppRecorderNext(r)

AppSpec == Init /\ [][AppStep]_vars

\* The stream handler and a caller of get_current_frame.
ReaderStep == HandlerNext(MaxHandlerFrames) \/ CallerGet \/ CallerDraw

ReaderSpec == Init /\ [][ReaderStep]_vars

\* One call of CanAI._record_clip next to the stream handler that feeds
\* get_current_frame.
RecorderStep == ClipTick \/ HandlerNext(MaxClipFrames) \/ ClipNext

RecorderSpec == RecorderInit /\ [][RecorderStep]_vars

\* ================================================================== claims
Running == { r \in Recordings : InFlight(r) }

\* C1: at most one recorder task runs at any time; a recorder task is
\* started only while no other one runs, and recording_in_progress is TRUE
\* for the whole time a recorder task is running.
C1_AtMostOneRecorder ==
    /\ Cardinality(Running) <= 1
    /\ Running # {} => recording_in_progress
    /\ opc \in {"snapshot", "setflag", "start"} => Running = {}

\* A recorder is in its post-event loop while the orchestrator has processed
\* a frame at or above the high threshold without triggering.
C1_Witness ==
    /\ \E r \in Recordings : rec[r].pc \in {"fetch", "sleep"}
    /\ opc = "after" /\ HighAny(confidence) /\ branch = "none"

\* The orchestrator thread takes a step.
OMoves == opc' # opc

\* C2 (as amended): a call of _handle_detection with confidence at or above
\* the high threshold, no recording in flight and more than
\* pre_event_seconds between last_detection_time and current_time takes the
\* triggering branch, and that branch sets recording_in_progress, starts
\* exactly one recorder task and sets last_detection_time to current_time.
C2_TriggerAfterCooldown ==
    [][ /\ ( /\ opc = "check" /\ OMoves
             /\ HighAny(confidence)
             /\ ~recording_in_progress
             /\ current_time - last_detection_time > config.pre_event_seconds )
           => opc' = "snapshot"
        /\ (opc = "snapshot" /\ OMoves) => opc' = "setflag"
        /\ (opc = "setflag" /\ OMoves) => (opc' = "start" /\ recording_in_progress')
        /\ (opc = "start" /\ OMoves) =>
              /\ opc' = "setlast"
              /\ NumStarted' = NumStarted + 1
              /\ recording_in_progress
        /\ (opc = "setlast" /\ OMoves) =>
              /\ opc' = "after"
              /\ last_detection_time' = current_time
        /\ NumStarted' # NumStarted => opc = "start"
      ]_vars

\* A second recording has been triggered under a positive cooldown.
C2_Witness ==
    /\ opc = "after" /\ branch = "trigger"
    /\ NumStarted = 2
    /\ config.pre_event_seconds > 0
    /\ last_detection_time = current_time
    /\ recording_in_progress

\* The time of the last trigger: the current_time of the call that started
\* the last recording, or the program's start.
LastTrigger == IF NumStarted = 0 THEN start_time ELSE rec[NumStarted].trig

\* C2 as stated: the cooldown is measured from the last recording start.
C2_TriggerSinceLastStart ==
    [][ ( /\ opc = "check" /\ OMoves
          /\ HighAny(confidence)
          /\ ~recording_in_progress
          /\ current_time - LastTrigger > config.pre_event_seconds )
        => opc' = "snapshot" ]_vars

\* C3: frame_buffer never holds more than max_pre_frames frames.
C3_BufferWithinCapacity == Len(frame_buffer) <= max_pre_frames

\* C4: the buffer is the run of the most recently added frames, in arrival
\* order: its last entry is the latest frame added and every entry follows
\* its predecessor in arrival order without a gap.
C4_FifoByAge ==
    \A i \in 1..Len(frame_buffer) :
        frame_buffer[i] = current_frame - Len(frame_buffer) + i

\* Frames have been evicted and the buffer still holds several.
C4_Witness ==
    /\ Len(frame_buffer) >= 2
    /\ frame_buffer[1] >= 2
    /\ Len(frame_timestamps) > Len(frame_buffer)

\* A step that removes a frame from the buffer (the oldest one, see C4).
Removal == Len(frame_buffer') < Len(frame_buffer)

\* C5: a frame is removed only if it was added more than BufferWindow
\* seconds earlier or the buffer is at capacity.
C5_DropOnlyOldOrFull ==
    [][ Removal => \/ now - added_at[1] > BufferWindow
                   \/ QueueFull(frame_buffer) ]_vars

\* A confidence between the thresholds.
Between(c) == LowAny(c) /\ ~HighAny(c)

\* C6: a frame with confidence between the thresholds refreshes
\* last_detection_time and starts no recording.
C6_ArmedRefresh ==
    [][ (opc = "check" /\ OMoves /\ Between(confidence))
        => (last_detection_time' = current_time /\ opc' = "after") ]_vars

\* C7: a frame with confidence below the low threshold takes the reset
\* branch, and recorded_detection is FALSE afterwards.
C7_BelowLowResets ==
    [][ (opc = "check" /\ OMoves /\ AllBelowLow(confidence))
        => (branch' = "reset" /\ recorded_detection' = FALSE) ]_vars

\* C8: a recording starts only after the one before it has completed, and
\* more than pre_event_seconds after that one was triggered.
C8_NoRetrigger ==
    \A r \in Recordings :
        (r > 1 /\ rec[r].pc # "none") =>
            /\ rec[r - 1].pc = "done"
            /\ rec[r].trig - rec[r - 1].trig > config.pre_event_seconds

\* After a completed recording a frame at or above the high threshold has
\* been processed within the cooldown, and no recording was started.
C8_Witness ==
    /\ NumStarted = 1 /\ rec[1].pc = "done"
    /\ opc = "after" /\ HighAny(confidence) /\ branch = "refresh"

\* C9: every recording that is started completes: its recorder task ends
\* with recording_in_progress reset.
C9_RecordingCompletes ==
    \A r \in Recordings : InFlight(r) ~> (rec[r].pc = "done")

\* C10: no recorder task is stopped before it has finished.
C10_NoCancellation == \A r \in Recordings : rec[r].pc # "killed"

\* The fetches that returned a frame.
NonNone(fs) == SelectSeq(fs, LAMBDA f : f # 0)

\* s is an initial part of t.
IsPrefix(s, t) == Len(s) <= Len(t) /\ SubSeq(t, 1, Len(s)) = s

\* record_clip has left its try block without an exception.
ClipCompleted == clip.pc \in {"finally", "returned", "done"} /\ ~clip.raised

\* C11: the frames written are, in order, the pre-event frames followed by
\* the live frames fetched; no live frame is fetched before every pre-event
\* frame is written; each iteration of the post-event loop fetches once; a
\* fetch that returns None adds nothing to the file.
C11_PreThenPost ==
    /\ IsPrefix(clip.written, clip.pre \o NonNone(clip.fetches))
    /\ clip.fetches # <<>> => IsPrefix(clip.pre, clip.written)
    /\ Len(clip.fetches) <= clip.iters /\ clip.iters <= Len(clip.fetches) + 1
    /\ clip.pc \in {"sleep", "check"} => Len(clip.fetches) = clip.iters
    /\ (ClipCompleted /\ clip.opened) =>
           clip.written = clip.pre \o NonNone(clip.fetches)

\* A call has ended with two pre-event frames, a fetch that returned None
\* and a later one that returned a frame.
C11_Witness ==
    /\ clip.pc = "done"
    /\ Len(clip.pre) = 2
    /\ Len(clip.fetches) = 2 /\ clip.fetches[1] = 0 /\ clip.fetches[2] # 0
    /\ Len(clip.written) = 3

C13_ReleasedOnce ==
    /\ clip.releases <= 1
    /\ clip.releases = 1 => clip.opened
    /\ clip.pc \in {"returned", "done"} =>
           /\ clip.opened => clip.releases = 1
           /\ clip.raised => clip.logged

\* A call has returned after video_writer.write raised in the post-event
\* loop.
C13_Witness ==
    /\ clip.pc = "returned"
    /\ clip.raised /\ clip.logged
    /\ clip.fetches # <<>> /\ clip.fetches[Len(clip.fetches)] # 0
    /\ Len(clip.written) = Len(clip.pre) + Len(NonNone(clip.fetches)) - 1
    /\ clip.opened /\ clip.releases = 1

C15_NoneSkipped ==
    [][ skipped' # skipped =>
            /\ UNCHANGED <<current_frame, frame_buffer, frame_timestamps, hframe>>
            /\ hpc' = "read" ]_vars

\* The camera returned None after the first frame, and the second frame has
\* been read and stored since.
C15_Witness ==
    /\ skipped = <<1>>
    /\ hpc = "read"
    /\ current_frame = 2
    /\ frame_buffer # <<>> /\ frame_buffer[Len(frame_buffer)] = 2

\* C16: an exception in the stream handler's loop changes nothing for the
\* orchestrator and the recorders, and after an exception in the
\* orchestrator's loop the stream handler and the recorders in flight are not
\* stopped.
C16_ExceptionIsLocal ==
    /\ [][ (hpc = "read" /\ hpc' = "stopped") => UNCHANGED <<opc, rec>> ]_vars
    /\ [](branch = "raised" =>
             /\ hpc # "killed"
             /\ \A r \in Recordings : rec[r].pc # "killed")

\* A key is missing, fps is outside [1, 60], or a duration is negative.
Rejectable(c) ==
    \/ \E key \in RequiredKeys : key \notin DOMAIN c
    \/ "fps" \in DOMAIN c /\ (c.fps < 1 \/ c.fps > 60)
    \/ "pre_event_seconds" \in DOMAIN c /\ c.pre_event_seconds < 0
    \/ "post_event_seconds" \in DOMAIN c /\ c.post_event_seconds < 0

\* C17: the construction of CanAI raises exactly for the configurations that
\* lack a key, have fps outside [1, 60] or a negative duration; after it has
\* raised neither the capture thread nor a recorder thread is started, and
\* the threads run only under an accepted configuration.
C17_RejectsExactlyInvalid ==
    /\ main.pc # "new" => (main.pc = "raised" <=> Rejectable(config))
    /\ main.pc = "raised" =>
           /\ main.error # "ok"
           /\ hpc = "unstarted" /\ opc = "unstarted"
           /\ NumStarted = 0
    /\ hpc # "unstarted" => (main.pc = "running" /\ ~Rejectable(config))

\* A configuration with every key and 61 frames per second has been
\* rejected.
C17_Witness ==
    /\ main.pc = "raised"
    /\ DOMAIN config = RequiredKeys
    /\ config.fps = 61
    /\ config.pre_event_seconds >= 0 /\ config.post_event_seconds >= 0

\* C18: current_frame, frame_buffer and frame_timestamps are written only by
\* the holder of the lock, and the orchestrator takes its snapshot of
\* frame_buffer only while no add_frame holds the lock.
C18_AccessUnderLock ==
    [][ /\ (\/ current_frame' # current_frame
            \/ frame_buffer' # frame_buffer
            \/ frame_timestamps' # frame_timestamps) => lock = "handler"
        /\ (opc = "snapshot" /\ OMoves) => lock = "free" ]_vars

\* The frame objects a sequence refers to.
Objects(fs) == { fs[k] : k \in 1..Len(fs) }

\* C19: no frame object in frame_buffer is the object current_frame refers
\* to, and no frame object handed to a recorder in flight is an object still
\* in frame_buffer.
C19_NoSharedFrame ==
    /\ current_frame \notin Objects(frame_buffer)
    /\ \A r \in Recordings :
           InFlight(r) => Objects(rec[r].pre) \cap Objects(frame_buffer) = {}

\* The number of add_frame calls that have completed, which is the arrival
\* number of the frame the last of them stored.
Stored == IF hpc \in {"maintain", "evict", "put"} THEN hframe - 1 ELSE hframe

\* C20: a call of get_current_frame returns None exactly if no add_frame has
\* completed; otherwise it returns a new object that shows the frame the
\* latest completed add_frame stored; and when the caller overwrites what it
\* was given, the pixels of the handler's current_frame stay as they are.
C20_CurrentFrameCopy ==
    [][ /\ caller'.calls # caller.calls =>
               /\ caller'.ret = 0 <=> Stored = 0
               /\ Stored > 0 =>
                      /\ PixelsIn(heap', caller'.ret) = Stored
                      /\ caller'.ret # current_frame
                      /\ caller'.ret \notin Objects(frame_buffer)
        /\ (caller' = caller /\ heap' # heap) =>
               PixelsIn(heap', current_frame) = PixelsIn(heap, current_frame)
      ]_vars

\* The caller got None first and a copy of frame 2 later, and has overwritten
\* the copy; current_frame still shows frame 2.
C20_Witness ==
    /\ caller.calls = 2 /\ caller.ret < 0
    /\ Pixels(caller.ret) = 0
    /\ current_frame = 2 /\ Pixels(current_frame) = 2
    /\ DOMAIN heap = {caller.ret}

\* The second in the file name of recording r: datetime.now() of record_clip,
\* which ROpen reads in the same step as start_time.
OutputPath(r) == rec[r].t0

\* A recording that has opened a video writer.
Opened(r) == rec[r].pc \notin {"none", "open"} /\ rec[r].pre # <<>>

\* C21: no two recordings write to the same file name.
C21_OneFilePerEvent ==
    \A r1, r2 \in Recordings :
        (r1 # r2 /\ Opened(r1) /\ Opened(r2)) => OutputPath(r1) # OutputPath(r2)

\* C22: a call of _handle_detection that finds recording_in_progress set
\* takes no branch: it starts no recorder and leaves recording_in_progress,
\* last_detection_time and recorded_detection as they are.
C22_SuppressedWhileRecording ==
    [][ (opc = "check" /\ OMoves /\ recording_in_progress) =>
            /\ opc' = "after" /\ branch' = "none"
            /\ NumStarted' = NumStarted
            /\ UNCHANGED <<recording_in_progress, last_detection_time,
                           recorded_detection>> ]_vars

\* With a recording in flight and the cooldown over, a frame at or above the
\* high threshold has been processed and nothing was started.
C22_Witness ==
    /\ opc = "after" /\ branch = "none"
    /\ HighAny(confidence)
    /\ current_time - last_detection_time > config.pre_event_seconds
    /\ recording_in_progress /\ Running # {}
    /\ NumStarted = 1

\* C23: outside add_frame, frame_timestamps is as long as frame_buffer and
\* its i-th entry is the time at which the i-th buffered frame was added.
C23_ParallelTimestamps ==
    lock = "free" =>
        /\ Len(frame_timestamps) = Len(frame_buffer)
        /\ frame_timestamps = added_at

\* add_frame is at "self.frame_buffer.get()" of _maintain_buffer with an
\* empty queue.
HandlerHangs == hpc = "maintain" /\ Expired /\ frame_buffer = <<>>

\* C24: while a recorder is in flight the lock is never left held for it;
\* the stream handler can take its next step (a camera read when the lock is
\* free, any step of add_frame that does not hang on its own queue), and so
\* can the orchestrator (a new frame when the lock is free, any step of
\* _handle_detection).
C24_RecorderDoesNotBlock ==
    Running # {} =>
        /\ lock \in {"free", "handler"}
        /\ (hpc = "read" /\ hframe < MaxFrames /\ lock = "free") =>
               ENABLED HRead(MaxFrames)
        /\ (hpc \in {"maintain", "evict", "put"} /\ ~HandlerHangs) =>
               ENABLED HandlerNext(MaxFrames)
        /\ (opc = "loop" /\ lock = "free" /\ NumStarted < MaxRecordings) =>
               ENABLED ODetect
        /\ opc \in {"check", "snapshot", "setflag", "start", "setlast", "after"} =>
               ENABLED OrchestratorNext

\* During the post-event loop of a recording the stream handler has stored a
\* frame that is not in the snapshot and the orchestrator has processed a
\* frame after the trigger.
C24_Witness ==
    \E r \in Recordings :
        /\ rec[r].pc = "sleep"
        /\ rec[r].pre # <<>>
        /\ current_frame > rec[r].pre[Len(rec[r].pre)]
        /\ opc = "after" /\ current_time > rec[r].trig

\* C25: the snapshot is the content of frame_buffer at the step that takes
\* it, in buffer order; it is handed unchanged to the recorder that is
\* started, and what a recorder has been handed never changes, whatever
\* happens to frame_buffer.
C25_SnapshotIsBufferAtTrigger ==
    [][ /\ (opc = "snapshot" /\ OMoves) => pre_event_frames' = frame_buffer
        /\ (opc = "setflag" /\ OMoves) => pre_event_frames' = pre_event_frames
        /\ (opc = "start" /\ OMoves) =>
               rec'[NumStarted + 1].pre = pre_event_frames
        /\ \A r \in Recordings :
               rec[r].pc # "none" => rec'[r].pre = rec[r].pre ]_vars

\* A recorder has written its pre-event frames after the stream handler
\* evicted one of them and stored a newer frame.
C25_Witness ==
    \E r \in Recordings :
        /\ rec[r].pc = "check" /\ rec[r].t0 = now
        /\ rec[r].pre # <<>>
        /\ Objects(rec[r].pre) \ Objects(frame_buffer) # {}
        /\ Objects(frame_buffer) \ Objects(rec[r].pre) # {}

\* C26: when the snapshot is taken, every frame in frame_buffer was added no
\* more than BufferWindow seconds before the current_time of the trigger.
C26_SnapshotWithinWindow ==
    [][ (opc = "snapshot" /\ OMoves) =>
            \A i \in 1..Len(added_at) : current_time - added_at[i] <= BufferWindow
      ]_vars

\* The smaller of two numbers.
Min(a, b) == IF a <= b THEN a ELSE b

\* C27: in the queue-only handler, between two iterations of run the buffer
\* holds the last min(n, max_pre_frames) of the n frames processed, in
\* arrival order, and it never holds more than max_pre_frames.
C27_QueueHoldsLastFrames ==
    /\ Len(frame_buffer) <= max_pre_frames
    /\ hpc \in {"read", "stopped"} =>
           /\ Len(frame_buffer) = Min(hframe, max_pre_frames)
           /\ \A i \in 1..Len(frame_buffer) :
                  Pixels(frame_buffer[i]) = hframe - Len(frame_buffer) + i

\* Recorder threads that have opened their output file and have not yet
\* left the post-event loop.
Writing == { r \in Recordings : rec[r].pc \in {"check", "fetch", "sleep"} }

\* C28: ObjectDetectionApp.run has at most one recording in flight, whatever
\* the sequence of detection results.
C28_AppAtMostOneRecording == Cardinality(Writing) <= 1

\* C29: add_frame always terminates and releases the lock: the handler is
\* never inside _maintain_buffer, holding the lock, at a blocking
\* frame_buffer.get() on an empty frame_buffer.
C29_AddFrameTerminates ==
    ~(lock = "handler" /\ hpc = "maintain" /\ Expired /\ Len(frame_buffer) = 0)

\* C30: the snapshot handed to a recorder task at a trigger is never empty.
C30_SnapshotNeverEmpty ==
    \A r \in Recordings : rec[r].pc # "none" => Len(rec[r].pre) > 0

\* C31: once the stream handler's run has ended, CanAI starts no further
\* recording: no recorder task is started by a _handle_detection call that
\* read the clock (current_time) after the second in which the handler
\* stopped.
C31_NoTriggerAfterStop ==
    [][ (opc = "start" /\ OMoves /\ hpc = "stopped") =>
            current_time <= stopped_at ]_vars

\* C32: when the recorder task has ended, whether record_clip succeeded or
\* failed at any of its steps, recording_in_progress is False again.
C32_FailedRecordingResetsFlag ==
    clip.pc \in {"done", "died"} => ~recording_in_progress

\* C33: when CanAI.run has left its main loop, by 'q' or by an exception
\* raised while a frame is processed, the finally block is what runs next;
\* when run is over camera.stop() has been called exactly once, never
\* before, and the orchestrator has no step left to take after the call.
C33_CameraStoppedOnce ==
    /\ camera_stops = (IF opc = "exited" THEN 1 ELSE 0)
    /\ opc = "finally" => ENABLED OExit
    /\ camera_stops > 0 =>
           ~ENABLED (OrchestratorNext \/ ORaise \/ OQuit \/ OExit)

\* run has ended by an exception after a recording was started, and the
\* camera has been stopped.
C33_Witness ==
    /\ opc = "exited" /\ branch = "raised"
    /\ camera_stops = 1
    /\ NumStarted >= 1
    /\ current_frame # 0

====
